---- MODULE Spec2Model ----
(***************************************************************************)
(* Model of video_xblock/mixins.py: the request handlers of                *)
(* TranscriptsMixin (route_transcripts, validate_three_play_media_config,  *)
(* get_available_3pm_transcripts) and of PlaybackStateMixin (player_state  *)
(* getter and setter, save_player_state, course_default_language).         *)
(*                                                                         *)
(* Representation.  A Python scalar is the pair <<type name, str(value)>>. *)
(* A Python str that the code inspects or formats (field names, urls,      *)
(* ids) is the sequence of its characters.  A dict is a function on its    *)
(* keys, a list is a sequence.  The JSON text held by the `transcripts`    *)
(* field is represented by the list of records it denotes.                 *)
(***************************************************************************)
EXTENDS Naturals, Sequences, FiniteSets

VARIABLES
    fields,                   \* the block's PlaybackStateMixin fields (host-persisted)
    threeplaymedia_streaming, \* TranscriptsMixin.threeplaymedia_streaming (content scope)
    enabledTranscripts,       \* what get_enabled_transcripts() returns for this block
    modulestore,              \* the runtime's modulestore service, or its absence
    request,                  \* the handler last dispatched, with its request data
    response,                 \* what that handler returned (or raised)
    apiCalls,                 \* requests sent to the 3PlayMedia API by that handler, each
                              \* with the answer it got, if any
    pending,                  \* validate_three_play_media_config handlers waiting in
                              \* requests.get, in the order they were dispatched
    lastSaved,                \* history: data of the last save_player_state that succeeded
    transcripts0,             \* history: the transcripts field at construction
    fieldsBefore,             \* history: the fields when the last handler was entered
    generators                \* the route_transcripts() generators alive, in call order:
                              \* each its position (pc "created", "running", "done"), its
                              \* local `transcripts` (records mutated in place), the index
                              \* idx of the record its for loop takes next, and the
                              \* records it has yielded so far

vars == <<fields, threeplaymedia_streaming, enabledTranscripts, modulestore, request,
          response, apiCalls, pending, lastSaved, transcripts0, fieldsBefore, generators>>

(***************************************************************************)
(* Bounds of the model.                                                    *)
(***************************************************************************)
\* longest list of enabled transcripts
MaxTranscripts == 2
\* longest list of transcripts the 3PlayMedia API answers with
MaxApiTranscripts == 2
\* most route_transcripts() generators alive at once
MaxGenerators == 2
\* most validate_three_play_media_config handlers waiting for the API at once
MaxPending == 2

(***************************************************************************)
(* Python values.                                                          *)
(***************************************************************************)
None == <<"NoneType", "None">>
PyBool(b) == <<"bool", IF b THEN "True" ELSE "False">>
PyStr(s) == <<"str", s>>
PyFloat(s) == <<"float", s>>
EmptyList == <<"list", "[]">>
EmptyDict == <<"dict", "{}">>

\* bool(v)
Truthy(v) ==
    CASE v[1] = "NoneType" -> FALSE
      [] v[1] = "bool" -> v[2] = "True"
      [] v[1] = "str" -> v[2] # ""
      [] v[1] = "float" -> v[2] \notin {"0.0", "-0.0"}
      [] v[1] = "int" -> v[2] # "0"
      [] v[1] = "list" -> v[2] # "[]"
      [] v[1] = "dict" -> v[2] # "{}"
      [] OTHER -> TRUE

\* a or b
PyOr(a, b) == IF Truthy(a) THEN a ELSE b

\* d.get(k) / d.get(k, default)
Get(d, k, default) == IF k \in DOMAIN d THEN d[k] ELSE default

\* s.endswith(suffix)
EndsWith(s, suffix) ==
    /\ Len(suffix) <= Len(s)
    /\ SubSeq(s, Len(s) - Len(suffix) + 1, Len(s)) = suffix

\* s.split(sep) for a one-character sep: the list of the parts
RECURSIVE Split(_, _)
Split(s, sep) ==
    IF \A i \in DOMAIN s : s[i] # sep
    THEN <<s>>
    ELSE LET i == CHOOSE j \in DOMAIN s : s[j] = sep /\ \A k \in 1..(j - 1) : s[k] # sep
         IN  <<SubSeq(s, 1, i - 1)>> \o Split(SubSeq(s, i + 1, Len(s)), sep)

\* "".join(parts)
RECURSIVE Join(_)
Join(parts) == IF parts = <<>> THEN <<>> ELSE Head(parts) \o Join(Tail(parts))

LowerLetters == <<"a", "b", "c", "d", "e", "f", "g", "h", "i", "j", "k", "l", "m",
                  "n", "o", "p", "q", "r", "s", "t", "u", "v", "w", "x", "y", "z">>
UpperLetters == <<"A", "B", "C", "D", "E", "F", "G", "H", "I", "J", "K", "L", "M",
                  "N", "O", "P", "Q", "R", "S", "T", "U", "V", "W", "X", "Y", "Z">>

UpperChar(c) ==
    IF \E i \in DOMAIN LowerLetters : LowerLetters[i] = c
    THEN UpperLetters[CHOOSE i \in DOMAIN LowerLetters : LowerLetters[i] = c]
    ELSE c

LowerChar(c) ==
    IF \E i \in DOMAIN UpperLetters : UpperLetters[i] = c
    THEN LowerLetters[CHOOSE i \in DOMAIN UpperLetters : UpperLetters[i] = c]
    ELSE c

\* str.lower
Lower(s) == [i \in DOMAIN s |-> LowerChar(s[i])]

\* str.capitalize
Capitalize(s) == [i \in DOMAIN s |-> IF i = 1 THEN UpperChar(s[i]) ELSE LowerChar(s[i])]

\* utils.underscore_to_mixedcase: the first non-empty part lowered, every later
\* non-empty part capitalized, an empty part kept as "_"
underscore_to_mixedcase(value) ==
    LET parts == Split(value, "_")
    IN  Join([i \in DOMAIN parts |->
                IF parts[i] = <<>> THEN <<"_">>
                ELSE IF \A j \in 1..(i - 1) : parts[j] = <<>>
                     THEN Lower(parts[i])
                     ELSE Capitalize(parts[i])])

(***************************************************************************)
(* PlaybackStateMixin: field names and the keys of the player state.       *)
(***************************************************************************)
F_current_time ==
    <<"c", "u", "r", "r", "e", "n", "t", "_", "t", "i", "m", "e">>
F_muted ==
    <<"m", "u", "t", "e", "d">>
F_playback_rate ==
    <<"p", "l", "a", "y", "b", "a", "c", "k", "_", "r", "a", "t", "e">>
F_volume ==
    <<"v", "o", "l", "u", "m", "e">>
F_transcripts_enabled ==
    <<"t", "r", "a", "n", "s", "c", "r", "i", "p", "t", "s", "_", "e", "n", "a", "b", "l", "e", "d">>
F_captions_enabled ==
    <<"c", "a", "p", "t", "i", "o", "n", "s", "_", "e", "n", "a", "b", "l", "e", "d">>
F_captions_language ==
    <<"c", "a", "p", "t", "i", "o", "n", "s", "_", "l", "a", "n", "g", "u", "a", "g", "e">>
F_transcripts ==
    <<"t", "r", "a", "n", "s", "c", "r", "i", "p", "t", "s">>

\* PlaybackStateMixin.player_state_fields, in the order of the tuple
player_state_fields ==
    <<F_current_time, F_muted, F_playback_rate,
      F_volume,
      F_transcripts_enabled,
      F_captions_enabled,
      F_captions_language,
      F_transcripts>>

\* the keys the player's JavaScript and the getter spell out
K_currentTime ==
    <<"c", "u", "r", "r", "e", "n", "t", "T", "i", "m", "e">>
K_playbackRate ==
    <<"p", "l", "a", "y", "b", "a", "c", "k", "R", "a", "t", "e">>
K_transcriptsEnabled ==
    <<"t", "r", "a", "n", "s", "c", "r", "i", "p", "t", "s", "E", "n", "a", "b", "l", "e", "d">>
K_captionsEnabled ==
    <<"c", "a", "p", "t", "i", "o", "n", "s", "E", "n", "a", "b", "l", "e", "d">>
K_captionsLanguage ==
    <<"c", "a", "p", "t", "i", "o", "n", "s", "L", "a", "n", "g", "u", "a", "g", "e">>
K_transcriptsObject ==
    <<"t", "r", "a", "n", "s", "c", "r", "i", "p", "t", "s", "O", "b", "j", "e", "c", "t">>

FieldNames == {player_state_fields[i] : i \in DOMAIN player_state_fields}

\* underscore_to_mixedcase on the names of player_state_fields, computed once
MixedCase == [f \in FieldNames |-> underscore_to_mixedcase(f)]

\* constants.DEFAULT_LANG
DEFAULT_LANG == PyStr("en")

\* d[k] = v on a dict
DictSet(d, k, v) == [x \in DOMAIN d \cup {k} |-> IF x = k THEN v ELSE d[x]]

\* d.setdefault(k, v)
SetDefault(d, k, v) == IF k \in DOMAIN d THEN d ELSE DictSet(d, k, v)

\* PlaybackStateMixin.course_default_language: the course's language, or
\* DEFAULT_LANG when runtime.service raises NoSuchServiceError
course_default_language(ms) ==
    IF ms.available THEN ms.language ELSE DEFAULT_LANG

\* the dict comprehension of the getter: a later transcript of the same lang
\* overwrites the earlier one
RECURSIVE TranscriptsObject(_)
TranscriptsObject(transcripts) ==
    IF transcripts = <<>>
    THEN <<>>
    ELSE LET n == Len(transcripts)
             trans == transcripts[n]
         IN  DictSet(TranscriptsObject(SubSeq(transcripts, 1, n - 1)),
                     trans.lang, [url |-> trans.url, label |-> trans.label])

\* the loop of the getter: state.setdefault(mixedcase name, getattr(self, name))
RECURSIVE GetterLoop(_, _, _)
GetterLoop(state, names, flds) ==
    IF names = <<>>
    THEN state
    ELSE GetterLoop(SetDefault(state, MixedCase[Head(names)], flds[Head(names)]),
                    Tail(names), flds)

\* the getter with its loop assigning state[key] where the code uses setdefault
PlayerState_Overwrite(flds, transcripts, ms) ==
    LET state == [k \in {K_captionsLanguage, K_transcriptsObject, F_transcripts} |->
                    CASE k = K_captionsLanguage ->
                             PyOr(flds[F_captions_language], course_default_language(ms))
                      [] k = K_transcriptsObject -> TranscriptsObject(transcripts)
                      [] OTHER -> transcripts]
    IN  [k \in DOMAIN state \cup {MixedCase[f] : f \in FieldNames} |->
            IF \E f \in FieldNames : MixedCase[f] = k
            THEN flds[CHOOSE f \in FieldNames : MixedCase[f] = k]
            ELSE state[k]]

\* PlaybackStateMixin.player_state (getter)
PlayerState(flds, transcripts, ms) ==
    LET state == [k \in {K_captionsLanguage, K_transcriptsObject, F_transcripts} |->
                    CASE k = K_captionsLanguage ->
                             PyOr(flds[F_captions_language], course_default_language(ms))
                      [] k = K_transcriptsObject -> TranscriptsObject(transcripts)
                      [] OTHER -> transcripts]
    IN  GetterLoop(state, player_state_fields, flds)

\* the setter looking the state up under the mixed-case key
SetPlayerState_MixedKey(flds, state) ==
    [f \in DOMAIN flds |->
        IF f \in FieldNames THEN Get(state, MixedCase[f], flds[f]) ELSE flds[f]]

\* PlaybackStateMixin.player_state (setter)
SetPlayerState(flds, state) ==
    [f \in DOMAIN flds |-> IF f \in FieldNames THEN Get(state, f, flds[f]) ELSE flds[f]]

\* save_player_state without the preset 'transcripts' entry: every field is
\* read from the request
BuildPlayerState_NoPreset(flds, req) ==
    LET lacking == SelectSeq(player_state_fields, LAMBDA f : MixedCase[f] \notin DOMAIN req)
    IN  IF lacking # <<>>
        THEN [raised |-> TRUE, key |-> MixedCase[Head(lacking)], state |-> <<>>]
        ELSE [raised |-> FALSE, key |-> <<>>,
              state |-> [f \in FieldNames |-> req[MixedCase[f]]]]

\* save_player_state, lines 492-498: the dict it hands to the setter, or the
\* KeyError of the first key the request lacks
BuildPlayerState(flds, req) ==
    LET preset == [k \in {F_transcripts} |-> flds[F_transcripts]]
        wanted == SelectSeq(player_state_fields, LAMBDA f : f \notin DOMAIN preset)
        lacking == SelectSeq(wanted, LAMBDA f : MixedCase[f] \notin DOMAIN req)
    IN  IF lacking # <<>>
        THEN [raised |-> TRUE, key |-> MixedCase[Head(lacking)], state |-> preset]
        ELSE [raised |-> FALSE, key |-> <<>>,
              state |-> [f \in FieldNames |->
                           IF f \in DOMAIN preset THEN preset[f]
                           ELSE req[MixedCase[f]]]]

\* the handler save_player_state
SavePlayerState(req) ==
    LET built == BuildPlayerState(fields, req)
    IN  /\ request' = [handler |-> "save_player_state", data |-> req]
        /\ fieldsBefore' = fields
        /\ IF built.raised
           THEN /\ response' = [status |-> "KeyError", body |-> built.key]
                /\ UNCHANGED <<fields, lastSaved>>
           ELSE /\ fields' = SetPlayerState(fields, built.state)
                /\ response' = [status |-> "ok", body |-> [success |-> PyBool(TRUE)]]
                /\ lastSaved' = [saved |-> TRUE, data |-> req]
        /\ UNCHANGED <<threeplaymedia_streaming, enabledTranscripts, modulestore, apiCalls,
                       pending, transcripts0, generators>>

\* get_enabled_transcripts(): the transcript records in use for this block,
\* a fresh list on every call
get_enabled_transcripts == enabledTranscripts

\* a read of the property player_state
GetPlayerState ==
    /\ request' = [handler |-> "player_state", data |-> <<>>]
    /\ fieldsBefore' = fields
    /\ response' = [status |-> "ok",
                    body |-> PlayerState(fields, get_enabled_transcripts, modulestore)]
    /\ UNCHANGED <<fields, threeplaymedia_streaming, enabledTranscripts, modulestore,
                   apiCalls, pending, lastSaved, transcripts0, generators>>

(***************************************************************************)
(* TranscriptsMixin.validate_three_play_media_config                       *)
(***************************************************************************)
THREE_PLAY_MEDIA_API_DOMAIN == "https://static.3playmedia.com/"

\* TranscriptsMixin.get_available_3pm_transcripts: the url it requests
AvailableTranscriptsUrl(file_id, apikey) ==
    THREE_PLAY_MEDIA_API_DOMAIN \o "files/" \o file_id[2] \o "/transcripts?apikey=" \o apikey[2]

\* a failed HTTP response answered with an empty list
get_available_3pm_transcripts_EmptyOnFailure(file_id, apikey, http) ==
    IF http.ok
    THEN http.json
    ELSE [type |-> "list", items |-> <<>>, entries |-> <<>>]

\* TranscriptsMixin.get_available_3pm_transcripts: its result for the answer
\* http of the API
get_available_3pm_transcripts(file_id, apikey, http) ==
    IF http.ok
    THEN http.json
    ELSE [type |-> "dict", items |-> <<>>, entries |-> [failed |-> PyBool(TRUE)]]

\* `or` where the code has `and`
IsInitialization_Or(api_key, file_id) == api_key = None \/ file_id = None

\* line 350: the very first request during xblock creating
IsInitialization(api_key, file_id) == api_key = None /\ file_id = None

\* line 355: no options provided, and streaming is disabled
NoOptions(api_key, file_id, streaming_enabled) ==
    ~Truthy(api_key) /\ ~Truthy(file_id) /\ ~Truthy(streaming_enabled)

\* `or` where the code has `and`
Incomplete_Or(api_key, file_id) == ~(Truthy(api_key) \/ Truthy(file_id))

\* line 360: options partially provided or both empty
Incomplete(api_key, file_id) == ~(Truthy(api_key) /\ Truthy(file_id))

\* line 365: is_valid = False if isinstance(results, dict) else True
IsValidResult(results) == IF results.type = "dict" THEN FALSE ELSE TRUE

\* lines 345-361: the handler up to its call of get_available_3pm_transcripts:
\* either it has answered, or it goes on to request url
validate_before_request(json) ==
    LET api_key == Get(json, "api_key", None)
        file_id == Get(json, "file_id", None)
        streaming_enabled == Get(json, "streaming_enabled", None)
        success_message == "Success"
        message == "Check provided 3PlayMedia configuration"
    IN  IF IsInitialization(api_key, file_id)
        THEN [answered |-> TRUE, url |-> "",
              body |-> [isValid |-> PyBool(TRUE), message |-> "Initialization"]]
        ELSE IF NoOptions(api_key, file_id, streaming_enabled)
        THEN [answered |-> TRUE, url |-> "",
              body |-> [isValid |-> PyBool(TRUE), message |-> success_message]]
        ELSE IF Incomplete(api_key, file_id)
        THEN [answered |-> TRUE, url |-> "",
              body |-> [isValid |-> PyBool(FALSE), message |-> message]]
        ELSE [answered |-> FALSE, url |-> AvailableTranscriptsUrl(file_id, api_key),
              body |-> <<>>]

\* lines 232-236 and 365-369: the handler's answer once the API has answered http
validate_after_answer(json, http) ==
    LET api_key == Get(json, "api_key", None)
        file_id == Get(json, "file_id", None)
        results == get_available_3pm_transcripts(file_id, api_key, http)
        is_valid == IsValidResult(results)
    IN  [isValid |-> PyBool(is_valid),
         message |-> IF is_valid THEN "Success"
                     ELSE "Check provided 3PlayMedia configuration"]

\* the handler is dispatched with the request body json: it answers at once,
\* or sends its request to the API and waits in requests.get
ValidateCall(json) ==
    LET out == validate_before_request(json)
    IN  IF out.answered
        THEN /\ request' = [handler |-> "validate_three_play_media_config", data |-> json]
             /\ response' = [status |-> "ok", body |-> out.body]
             /\ apiCalls' = <<>>
             /\ fieldsBefore' = fields
             /\ UNCHANGED <<fields, threeplaymedia_streaming, enabledTranscripts,
                            modulestore, pending, lastSaved, transcripts0, generators>>
        ELSE /\ Len(pending) < MaxPending
             /\ pending' = Append(pending, [json |-> json, url |-> out.url])
             /\ UNCHANGED <<fields, threeplaymedia_streaming, enabledTranscripts,
                            modulestore, request, response, apiCalls, lastSaved,
                            transcripts0, fieldsBefore, generators>>

\* the waiting handler p leaves pending
Resume(p) == SubSeq(pending, 1, p - 1) \o SubSeq(pending, p + 1, Len(pending))

\* the API answers the waiting handler p with http: the handler answers, or
\* raises the ValueError of response.json() on a body that is not JSON
ValidateAnswer(p, http) ==
    /\ request' = [handler |-> "validate_three_play_media_config",
                   data |-> pending[p].json]
    /\ response' = IF http.ok /\ http.json.type = "invalid"
                   THEN [status |-> "ValueError", body |-> <<>>]
                   ELSE [status |-> "ok",
                         body |-> validate_after_answer(pending[p].json, http)]
    /\ apiCalls' = <<[url |-> pending[p].url, answers |-> <<http>>]>>
    /\ pending' = Resume(p)
    /\ fieldsBefore' = fields
    /\ UNCHANGED <<fields, threeplaymedia_streaming, enabledTranscripts, modulestore,
                   lastSaved, transcripts0, generators>>

\* requests.get raises in the waiting handler p (no connection): the handler
\* raises, there is no Response
ValidateRaise(p) ==
    /\ request' = [handler |-> "validate_three_play_media_config",
                   data |-> pending[p].json]
    /\ response' = [status |-> "ConnectionError", body |-> <<>>]
    /\ apiCalls' = <<[url |-> pending[p].url, answers |-> <<>>]>>
    /\ pending' = Resume(p)
    /\ fieldsBefore' = fields
    /\ UNCHANGED <<fields, threeplaymedia_streaming, enabledTranscripts, modulestore,
                   lastSaved, transcripts0, generators>>

(***************************************************************************)
(* TranscriptsMixin.route_transcripts                                      *)
(***************************************************************************)
VTT == <<".", "v", "t", "t">>

\* runtime.handler_url(self, handler, query=query)
handler_url(handler, query) == <<"/handler/", handler, "/?">> \o query

\* "{}={}".format(lang_id, id)
FormatQuery(lang_id, id) == lang_id \o <<"=">> \o id

\* the loop body testing the '.vtt' ending before the streaming flag
RouteRecord_VttFirst(tran, streaming) ==
    IF EndsWith(tran.url, VTT)
    THEN tran
    ELSE IF Truthy(streaming)
    THEN [tran EXCEPT !.url = handler_url("fetch_from_three_play_media",
                                          FormatQuery(tran.lang_id, tran.id))]
    ELSE [tran EXCEPT !.url = handler_url("srt_to_vtt", tran.url)]

\* the body of the for loop: the record as it is yielded
RouteRecord(tran, streaming) ==
    IF Truthy(streaming)
    THEN [tran EXCEPT !.url = handler_url("fetch_from_three_play_media",
                                          FormatQuery(tran.lang_id, tran.id))]
    ELSE IF ~EndsWith(tran.url, VTT)
    THEN [tran EXCEPT !.url = handler_url("srt_to_vtt", tran.url)]
    ELSE tran

\* a call of route_transcripts(): a new generator, none of its body has run;
\* generators of earlier calls stay as they are
RouteCall ==
    /\ Len(generators) < MaxGenerators
    /\ generators' = Append(generators,
                            [pc |-> "created", transcripts |-> <<>>, idx |-> 1,
                             yielded |-> <<>>])
    /\ request' = [handler |-> "route_transcripts", data |-> <<>>]
    /\ fieldsBefore' = fields
    /\ UNCHANGED <<fields, threeplaymedia_streaming, enabledTranscripts, modulestore,
                   response, apiCalls, pending, lastSaved, transcripts0>>

\* next() on generator g: runs to the next yield, or to the end; the first
\* next() starts the body, which calls get_enabled_transcripts()
RouteNext(g) ==
    /\ generators[g].pc \in {"created", "running"}
    /\ LET gen == generators[g]
           transcripts == IF gen.pc = "created" THEN get_enabled_transcripts
                          ELSE gen.transcripts
       IN  IF gen.idx <= Len(transcripts)
           THEN LET tran == RouteRecord(transcripts[gen.idx], threeplaymedia_streaming)
                IN  generators' =
                        [generators EXCEPT ![g] =
                            [pc |-> "running",
                             transcripts |-> [transcripts EXCEPT ![gen.idx] = tran],
                             idx |-> gen.idx + 1,
                             yielded |-> Append(gen.yielded, tran)]]
           ELSE generators' =
                    [generators EXCEPT ![g] =
                        [gen EXCEPT !.pc = "done", !.transcripts = transcripts]]
    /\ UNCHANGED <<fields, threeplaymedia_streaming, enabledTranscripts, modulestore,
                   request, response, apiCalls, pending, lastSaved, transcripts0,
                   fieldsBefore>>

\* the caller lets go of generator g, finished or not
RouteDrop(g) ==
    /\ generators' = SubSeq(generators, 1, g - 1) \o SubSeq(generators, g + 1, Len(generators))
    /\ UNCHANGED <<fields, threeplaymedia_streaming, enabledTranscripts, modulestore,
                   request, response, apiCalls, pending, lastSaved, transcripts0,
                   fieldsBefore>>

(***************************************************************************)
(* Inputs.                                                                 *)
(***************************************************************************)
TranscriptPool ==
    { [lang |-> "en", label |-> "English", id |-> <<"1", "1">>, lang_id |-> <<"1">>,
       url |-> <<"/", "a", ".", "v", "t", "t">>],
      [lang |-> "uk", label |-> "Ukrainian", id |-> <<"1", "2">>, lang_id |-> <<"2", "7">>,
       url |-> <<"/", "b", ".", "s", "r", "t">>],
      [lang |-> "en", label |-> "English (auto)", id |-> <<"1", "3">>, lang_id |-> <<"1">>,
       url |-> <<"v", "t", "t">>],
      [lang |-> "de", label |-> "German", id |-> <<"1", "4">>, lang_id |-> <<"5">>,
       url |-> <<"c", ".", "v", "t", "t", ".", "s", "r", "t">>] }

TranscriptLists == UNION {[1..n -> TranscriptPool] : n \in 0..MaxTranscripts}

\* the transcripts field as the course author left it
RawTranscripts ==
    {<<>>} \cup {<<t>> : t \in {r \in TranscriptPool : r.lang = "uk"}}

Modulestores ==
    {[available |-> FALSE, language |-> None], [available |-> TRUE, language |-> PyStr("fr")]}

\* the fields' declared defaults
DefaultFields ==
    [f \in FieldNames |->
        CASE f = F_current_time -> <<"int", "0">>
          [] f = F_playback_rate -> <<"int", "1">>
          [] f = F_volume -> <<"int", "1">>
          [] f = F_muted -> PyBool(FALSE)
          [] f = F_captions_language -> PyStr("")
          [] f = F_transcripts_enabled -> PyBool(FALSE)
          [] f = F_captions_enabled -> PyBool(FALSE)
          [] OTHER -> <<>>]

StateKeys ==
    {K_currentTime, F_muted, K_playbackRate, F_volume, K_transcriptsEnabled,
     K_captionsEnabled, K_captionsLanguage}

\* the values the player reports, one row per report
RequestRows ==
    { [k \in StateKeys |->
        CASE k = K_currentTime -> PyFloat("12.5")
          [] k = F_muted -> PyBool(TRUE)
          [] k = K_playbackRate -> PyFloat("1.5")
          [] k = F_volume -> PyFloat("0.3")
          [] k = K_transcriptsEnabled -> PyBool(TRUE)
          [] k = K_captionsEnabled -> PyBool(FALSE)
          [] OTHER -> PyStr("uk")],
      [k \in StateKeys |->
        CASE k = K_currentTime -> PyFloat("0.0")
          [] k = F_muted -> PyBool(FALSE)
          [] k = K_playbackRate -> PyFloat("2.0")
          [] k = F_volume -> PyFloat("1.0")
          [] k = K_transcriptsEnabled -> PyBool(FALSE)
          [] k = K_captionsEnabled -> PyBool(TRUE)
          [] OTHER -> PyStr("")],
      [k \in StateKeys |->
        CASE k = K_currentTime -> PyFloat("3.0")
          [] k = F_muted -> PyBool(TRUE)
          [] k = K_playbackRate -> PyFloat("0.5")
          [] k = F_volume -> PyFloat("0.0")
          [] k = K_transcriptsEnabled -> PyBool(TRUE)
          [] k = K_captionsEnabled -> PyBool(TRUE)
          [] OTHER -> None] }

\* a request body without the key k
Without(req, k) == [x \in DOMAIN req \ {k} |-> req[x]]

\* request bodies of save_player_state: complete ones, ones that also carry a
\* 'transcripts' key, ones that lack a key
SaveRequests ==
    RequestRows
    \cup {DictSet(row, F_transcripts, <<t>>) : row \in RequestRows,
                                               t \in {r \in TranscriptPool : r.lang = "de"}}
    \cup {Without(row, k) : row \in {r \in RequestRows : r[F_volume] = PyFloat("0.3")},
                            k \in StateKeys}

Absent == <<"absent", "">>

\* the body {api_key: a, file_id: f, streaming_enabled: s}, a key left out
\* when its value is Absent
ConfigJson(a, f, s) ==
    LET all == [api_key |-> a, file_id |-> f, streaming_enabled |-> s]
    IN  [k \in {x \in DOMAIN all : all[x] # Absent} |-> all[k]]

ConfigRequests ==
    {ConfigJson(a, f, s) :
        a \in {Absent, None, PyStr(""), EmptyList, PyStr("key1"), PyStr("key2")},
        f \in {Absent, None, PyStr(""), EmptyDict, PyStr("file1")},
        s \in {Absent, PyBool(FALSE), PyBool(TRUE)}}

ApiTranscript(i) == [id |-> 100 + i, language_id |-> i]

ErrorDict == [type |-> "dict", items |-> <<>>,
              entries |-> [iserror |-> PyBool(TRUE), errors |-> PyStr("Authentication failed")]]

\* what response.json() can return besides a list or a dict
OtherJsonTypes == {"null", "bool", "str", "number"}

\* answers of the 3PlayMedia API: a list of transcripts, an error dict, any other
\* JSON value (null, a boolean, a string, a number), a body that is not JSON, a failed HTTP
\* response
HttpResponses ==
    {[ok |-> TRUE, code |-> "200",
      json |-> [type |-> "list", items |-> [i \in 1..n |-> ApiTranscript(i)], entries |-> <<>>]] :
        n \in 0..MaxApiTranscripts}
    \cup {[ok |-> TRUE, code |-> "200", json |-> ErrorDict]}
    \cup {[ok |-> TRUE, code |-> "200",
           json |-> [type |-> t, items |-> <<>>, entries |-> <<>>]] : t \in OtherJsonTypes}
    \cup {[ok |-> TRUE, code |-> "200",
           json |-> [type |-> "invalid", items |-> <<>>, entries |-> <<>>]]}
    \cup {[ok |-> FALSE, code |-> c, json |-> ErrorDict] : c \in {"401", "404"}}

(***************************************************************************)
(* Specifications.                                                         *)
(***************************************************************************)
Quiet ==
    /\ request = [handler |-> "none", data |-> <<>>]
    /\ response = [status |-> "none", body |-> <<>>]
    /\ apiCalls = <<>>
    /\ pending = <<>>
    /\ lastSaved = [saved |-> FALSE, data |-> <<>>]
    /\ transcripts0 = fields[F_transcripts]
    /\ fieldsBefore = fields
    /\ generators = <<>>

\* per-user playback state: save_player_state and the player_state getter
InitPlayback ==
    /\ fields \in {DictSet(DefaultFields, F_transcripts, raw) : raw \in RawTranscripts}
    /\ threeplaymedia_streaming = PyBool(FALSE)
    /\ enabledTranscripts \in TranscriptLists
    /\ modulestore \in Modulestores
    /\ Quiet

NextPlayback ==
    \/ \E req \in SaveRequests : SavePlayerState(req)
    \/ GetPlayerState

SpecPlayback == InitPlayback /\ [][NextPlayback]_vars

\* validation of the 3PlayMedia options
InitValidate ==
    /\ fields = DefaultFields
    /\ threeplaymedia_streaming = PyBool(FALSE)
    /\ enabledTranscripts = <<>>
    /\ modulestore \in {ms \in Modulestores : ~ms.available}
    /\ Quiet

\* while a handler waits for the API the block serves other requests: further
\* validations, and reads of the player state
NextValidate ==
    \/ \E json \in ConfigRequests : ValidateCall(json)
    \/ \E p \in DOMAIN pending, http \in HttpResponses : ValidateAnswer(p, http)
    \/ \E p \in DOMAIN pending : ValidateRaise(p)
    \/ GetPlayerState

SpecValidate == InitValidate /\ [][NextValidate]_vars

\* routing of the enabled transcripts
InitRoute ==
    /\ fields = DefaultFields
    /\ threeplaymedia_streaming \in {PyBool(FALSE), PyBool(TRUE)}
    /\ enabledTranscripts \in TranscriptLists
    /\ modulestore \in {ms \in Modulestores : ~ms.available}
    /\ Quiet

NextRoute ==
    \/ RouteCall
    \/ \E g \in DOMAIN generators : RouteNext(g)
    \/ \E g \in DOMAIN generators : RouteDrop(g)

SpecRoute == InitRoute /\ [][NextRoute]_vars

(***************************************************************************)
(* Properties.                                                             *)
(***************************************************************************)
\* the mixed-case key of each of the seven per-user fields
ClaimKey ==
    [f \in FieldNames \ {F_transcripts} |->
        CASE f = F_current_time -> K_currentTime
          [] f = F_muted -> F_muted
          [] f = F_playback_rate -> K_playbackRate
          [] f = F_volume -> F_volume
          [] f = F_transcripts_enabled -> K_transcriptsEnabled
          [] f = F_captions_enabled -> K_captionsEnabled
          [] OTHER -> K_captionsLanguage]

Success == [status |-> "ok", body |-> [success |-> PyBool(TRUE)]]

\* C1: after any sequence of save_player_state calls each of the seven fields
\* holds the value the most recent successful request carried under the field's
\* mixed-case key; a call whose request carries all seven keys succeeds, and
\* every successful call returns {'success': True}.
C1_FieldsHoldLastSavedRequest ==
    /\ lastSaved.saved =>
          \A f \in DOMAIN ClaimKey : fields[f] = lastSaved.data[ClaimKey[f]]
    /\ request.handler = "save_player_state" =>
          /\ response.status = "ok" <=> StateKeys \subseteq DOMAIN request.data
          /\ response.status = "ok" =>
                response = Success /\ lastSaved = [saved |-> TRUE, data |-> request.data]
          /\ response.status # "ok" => fields = fieldsBefore

\* a save that succeeded, then one that lacked a key: the fields still hold
\* the values of the first
C1_Witness ==
    /\ request.handler = "save_player_state"
    /\ response.status = "KeyError"
    /\ lastSaved.saved
    /\ fields[F_playback_rate] = PyFloat("2.0")
    /\ fields[F_captions_enabled] = PyBool(TRUE)

\* C7: the transcripts field holds, after any sequence of save_player_state
\* calls and whatever the requests contain, the value it had before the first.
C7_TranscriptsFieldUnchanged == fields[F_transcripts] = transcripts0

\* a successful save whose request carried a 'transcripts' key with another value
C7_Witness ==
    /\ request.handler = "save_player_state"
    /\ response.status = "ok"
    /\ F_transcripts \in DOMAIN request.data
    /\ request.data[F_transcripts] # transcripts0

\* the course default language: 'en' when there is no modulestore service
ClaimDefaultLanguage == IF modulestore.available THEN modulestore.language ELSE PyStr("en")

\* what the claim says of the getter's dict, but for its transcriptsObject
C6_GetterCommon(state) ==
    /\ state[K_captionsLanguage] =
          IF fields[F_captions_language] \notin {PyStr(""), None}
          THEN fields[F_captions_language]
          ELSE ClaimDefaultLanguage
    /\ state[F_transcripts] = enabledTranscripts
    /\ DOMAIN state[K_transcriptsObject] =
          {enabledTranscripts[i].lang : i \in DOMAIN enabledTranscripts}
    /\ \A f \in DOMAIN ClaimKey \ {F_captions_language} : state[ClaimKey[f]] = fields[f]
    /\ fields = fieldsBefore

\* C6 as stated: transcriptsObject maps each enabled transcript's lang to that
\* transcript's url and label.
C6_AsStated ==
    request.handler = "player_state" =>
        /\ C6_GetterCommon(response.body)
        /\ \A i \in DOMAIN enabledTranscripts :
              response.body[K_transcriptsObject][enabledTranscripts[i].lang] =
                  [url |-> enabledTranscripts[i].url, label |-> enabledTranscripts[i].label]

\* C6, amended: transcriptsObject maps each enabled transcript's lang to the url
\* and label of the last enabled transcript of that lang; the rest as stated
\* (captionsLanguage, 'transcripts', the six fields, no field changed).
C6_GetterState ==
    request.handler = "player_state" =>
        /\ C6_GetterCommon(response.body)
        /\ \A i \in DOMAIN enabledTranscripts :
              (\A j \in DOMAIN enabledTranscripts :
                  j > i => enabledTranscripts[j].lang # enabledTranscripts[i].lang)
              => response.body[K_transcriptsObject][enabledTranscripts[i].lang] =
                  [url |-> enabledTranscripts[i].url, label |-> enabledTranscripts[i].label]

\* the getter read after a save, with no captions language saved, no modulestore
\* service, two enabled transcripts of one lang, and a transcripts field that
\* differs from the enabled transcripts
C6_Witness ==
    /\ request.handler = "player_state"
    /\ lastSaved.saved
    /\ fields[F_captions_language] = PyStr("")
    /\ ~modulestore.available
    /\ fields[F_transcripts] # enabledTranscripts
    /\ Len(enabledTranscripts) = 2
    /\ enabledTranscripts[1].lang = enabledTranscripts[2].lang
    /\ enabledTranscripts[1].url # enabledTranscripts[2].url
    /\ response.body[K_captionsLanguage] = PyStr("en")

\* the three options of a request body, None when absent
ApiKeyOf(json) == Get(json, "api_key", None)
FileIdOf(json) == Get(json, "file_id", None)
StreamingOf(json) == Get(json, "streaming_enabled", None)
Validated == request.handler = "validate_three_play_media_config"
\* an option that is empty: None, '', [] or {}
EmptyOption(v) == v \in {None, PyStr(""), <<"list", "[]">>, <<"dict", "{}">>}
Answer(valid, message) ==
    [status |-> "ok", body |-> [isValid |-> PyBool(valid), message |-> message]]

\* the requests of C2: both options None; both empty, not both None, and
\* streaming_enabled falsy
BothNone(json) == ApiKeyOf(json) = None /\ FileIdOf(json) = None
NothingGiven(json) ==
    /\ EmptyOption(ApiKeyOf(json)) /\ EmptyOption(FileIdOf(json))
    /\ ~BothNone(json)
    /\ StreamingOf(json) \in {None, PyBool(FALSE)}

\* the requests of C3: exactly one option non-empty; both empty, not both None,
\* and streaming_enabled true
PartlyGiven(json) ==
    \/ EmptyOption(ApiKeyOf(json)) # EmptyOption(FileIdOf(json))
    \/ /\ EmptyOption(ApiKeyOf(json)) /\ EmptyOption(FileIdOf(json))
       /\ ~BothNone(json)
       /\ StreamingOf(json) = PyBool(TRUE)

\* the requests of C4: both options non-empty
BothGiven(json) == ~EmptyOption(ApiKeyOf(json)) /\ ~EmptyOption(FileIdOf(json))

\* C2: isValid = True and no request to the API when (1) api_key and file_id are
\* both None, whatever streaming_enabled, with message 'Initialization'; (2) both
\* are empty (not both None, which is case 1) and streaming_enabled is falsy,
\* with message 'Success'.  No such request is ever waiting for the API.
C2_ValidWithoutRequest ==
    /\ \A p \in DOMAIN pending :
          ~BothNone(pending[p].json) /\ ~NothingGiven(pending[p].json)
    /\ (Validated /\ BothNone(request.data))
          => response = Answer(TRUE, "Initialization") /\ apiCalls = <<>>
    /\ (Validated /\ NothingGiven(request.data))
          => response = Answer(TRUE, "Success") /\ apiCalls = <<>>

\* api_key absent, file_id empty, streaming off: 'Success' without a request,
\* answered while an earlier validation still waits for the API
C2_Witness ==
    /\ Validated
    /\ "api_key" \notin DOMAIN request.data
    /\ FileIdOf(request.data) = PyStr("")
    /\ StreamingOf(request.data) = PyBool(FALSE)
    /\ response = Answer(TRUE, "Success")
    /\ apiCalls = <<>>
    /\ pending # <<>>

\* C3: isValid = False with message 'Check provided 3PlayMedia configuration' and
\* no request to the API when exactly one of api_key and file_id is non-empty
\* (any streaming_enabled), or both are empty, not both None, and
\* streaming_enabled is true.  No such request is ever waiting for the API.
C3_InvalidWithoutRequest ==
    /\ \A p \in DOMAIN pending : ~PartlyGiven(pending[p].json)
    /\ (Validated /\ PartlyGiven(request.data))
          => /\ response = Answer(FALSE, "Check provided 3PlayMedia configuration")
             /\ apiCalls = <<>>

\* only a file id given, streaming off: refused without a request
C3_Witness ==
    /\ Validated
    /\ ApiKeyOf(request.data) = PyStr("")
    /\ FileIdOf(request.data) = PyStr("file1")
    /\ StreamingOf(request.data) = PyBool(FALSE)
    /\ response = Answer(FALSE, "Check provided 3PlayMedia configuration")
    /\ apiCalls = <<>>

\* the url of the available-transcripts API for the options of json
ClaimUrl(json) ==
    "https://static.3playmedia.com/files/" \o FileIdOf(json)[2]
        \o "/transcripts?apikey=" \o ApiKeyOf(json)[2]

\* the API answered the handler last finished, and its result (line 232-236) is
\* a list
ResultIsList ==
    /\ apiCalls[1].answers # <<>>
    /\ apiCalls[1].answers[1].ok
    /\ apiCalls[1].answers[1].json.type = "list"

\* ... its result is a dict: an error dict, or the dict made for a failed
\* HTTP response
ResultIsDict ==
    /\ apiCalls[1].answers # <<>>
    /\ (~apiCalls[1].answers[1].ok \/ apiCalls[1].answers[1].json.type = "dict")

\* ... its result is a JSON value that is not a dict: a list, null, a
\* boolean, a string, a number
ResultIsNoDict ==
    /\ apiCalls[1].answers # <<>>
    /\ apiCalls[1].answers[1].ok
    /\ apiCalls[1].answers[1].json.type \in {"list"} \cup OtherJsonTypes

\* what C4 says of the request sent, and of a result that is a dict
C4_Common ==
    /\ \A p \in DOMAIN pending :
          BothGiven(pending[p].json) /\ pending[p].url = ClaimUrl(pending[p].json)
    /\ (Validated /\ BothGiven(request.data)) =>
          /\ Len(apiCalls) = 1
          /\ apiCalls[1].url = ClaimUrl(request.data)
          /\ ResultIsDict =>
                response = Answer(FALSE, "Check provided 3PlayMedia configuration")

\* C4 as stated: with api_key and file_id both non-empty the handler queries the
\* available-transcripts API exactly once, with that file_id and api_key, and
\* answers isValid = True, 'Success' if and only if the API result is a list; a
\* failed HTTP response or an error dict gives isValid = False, 'Check provided
\* 3PlayMedia configuration'.
C4_AsStated ==
    /\ C4_Common
    /\ (Validated /\ BothGiven(request.data)) =>
          /\ ResultIsList => response = Answer(TRUE, "Success")
          /\ response = Answer(TRUE, "Success") => ResultIsList

\* C4, amended: the handler answers isValid = True, 'Success' if and only if the
\* API result is not a dict (a list, but also null, a boolean, a string or a
\* number); the one request with that file_id and api_key, and isValid = False
\* for a dict, as stated.
C4_ValidatedAgainstApi ==
    /\ C4_Common
    /\ (Validated /\ BothGiven(request.data)) =>
          /\ ResultIsNoDict => response = Answer(TRUE, "Success")
          /\ response = Answer(TRUE, "Success") => ResultIsNoDict

\* both options given and the API answering 200 with the JSON value null: the
\* handler answers 'Success', while another validation still waits
C4_Witness ==
    /\ Validated
    /\ ApiKeyOf(request.data) = PyStr("key2")
    /\ FileIdOf(request.data) = PyStr("file1")
    /\ Len(apiCalls) = 1
    /\ apiCalls[1].answers # <<>>
    /\ apiCalls[1].answers[1].ok
    /\ apiCalls[1].answers[1].json.type = "null"
    /\ response = Answer(TRUE, "Success")
    /\ pending # <<>>

\* the url ends in '.vtt'
ClaimEndsVtt(url) ==
    /\ Len(url) >= 4
    /\ url[Len(url) - 3] = "." /\ url[Len(url) - 2] = "v"
    /\ url[Len(url) - 1] = "t" /\ url[Len(url)] = "t"

\* the record the claim expects for the enabled transcript tran
ClaimRouted(tran) ==
    [lang |-> tran.lang, label |-> tran.label, id |-> tran.id, lang_id |-> tran.lang_id,
     url |-> IF threeplaymedia_streaming = PyBool(TRUE)
             THEN <<"/handler/", "fetch_from_three_play_media", "/?">>
                     \o tran.lang_id \o <<"=">> \o tran.id
             ELSE IF ClaimEndsVtt(tran.url)
             THEN tran.url
             ELSE <<"/handler/", "srt_to_vtt", "/?">> \o tran.url]

\* C5: route_transcripts yields one record per enabled transcript, in the same
\* order, changing only the url: with streaming on, the
\* fetch_from_three_play_media handler url with query '<lang_id>=<id>'; with
\* streaming off, the srt_to_vtt handler url with the original url as query
\* unless the url ends in '.vtt', which is left unchanged.  This holds of every
\* generator, whatever other generators of the block are doing.
C5_RoutedTranscripts ==
    \A g \in DOMAIN generators :
        LET yielded == generators[g].yielded
        IN  /\ Len(yielded) <= Len(enabledTranscripts)
            /\ \A i \in DOMAIN yielded : yielded[i] = ClaimRouted(enabledTranscripts[i])
            /\ generators[g].pc = "done" => Len(yielded) = Len(enabledTranscripts)

\* a generator exhausted over two transcripts, streaming off, one url ending in
\* '.vtt' and one not, while a generator of an earlier call is still running
C5_Witness ==
    /\ Len(generators) = 2
    /\ generators[1].pc = "running"
    /\ Len(generators[1].yielded) = 1
    /\ generators[2].pc = "done"
    /\ threeplaymedia_streaming = PyBool(FALSE)
    /\ Len(generators[2].yielded) = 2
    /\ generators[2].yielded[1].url = enabledTranscripts[1].url
    /\ generators[2].yielded[2].url # enabledTranscripts[2].url

====
